---- MODULE Spec2Model ----
(***************************************************************************)
(* A model of the wiki search services of ir0m/wiki-elasticsearch:         *)
(*   - src/api/main.py       FastAPI app: /search, /search_file_list       *)
(*   - src/crawler/search.py Flask app:   /search (highlighted search)     *)
(* Text is modelled as sequences of one-character strings, so that line    *)
(* splitting, case folding, substring search, the [[...]] pattern, term    *)
(* counting and joining are computed character by character.               *)
(***************************************************************************)
EXTENDS Integers, Sequences, FiniteSets, TLC

VARIABLES
    es_client,   \* src/api/main.py: the global Elasticsearch handle
    client,      \* src/crawler/search.py: the global ElsClient handle
    phase,       \* lifecycle of the two processes
    connects,    \* connections to the search engine each process has opened
    req,         \* the requests being handled, one record per request slot
    arg,         \* input of the function or handler applied in isolation
    ret,         \* its result
    op           \* which function or handler produced ret ("none": not yet)

vars == <<es_client, client, phase, connects, req, arg, ret, op>>

\* ------------------------------------------------------------------ text

\* str.lower() on the model's alphabet
LowerChar(c) ==
    CASE c = "A" -> "a"
      [] c = "B" -> "b"
      [] OTHER -> c

lower(s) == [i \in 1..Len(s) |-> LowerChar(s[i])]

\* t occurs in s starting at position i
OccursAt(s, t, i) ==
    /\ i >= 1
    /\ i + Len(t) - 1 <= Len(s)
    /\ \A k \in 1..Len(t) : s[i + k - 1] = t[k]

\* Python's `t in s` (the empty string is in every string)
In(t, s) == \E i \in 1..(Len(s) + 1) : OccursAt(s, t, i)

RECURSIVE SplitFrom(_, _, _)
SplitFrom(s, i, cur) ==
    IF i > Len(s)
    THEN IF cur = <<>> THEN <<>> ELSE <<cur>>
    ELSE IF s[i] = "\n"
         THEN <<cur>> \o SplitFrom(s, i + 1, <<>>)
         ELSE SplitFrom(s, i + 1, Append(cur, s[i]))

\* str.splitlines(): no empty last line after a final line break
splitlines(s) == SplitFrom(s, 1, <<>>)

RECURSIVE JoinFrom(_, _, _)
JoinFrom(sep, parts, i) ==
    IF i > Len(parts) THEN <<>>
    ELSE IF i = Len(parts) THEN parts[i]
    ELSE parts[i] \o sep \o JoinFrom(sep, parts, i + 1)

\* sep.join(parts)
join(sep, parts) == JoinFrom(sep, parts, 1)

NoneOf(e, list) == \A j \in 1..Len(list) : list[j] # e

\* ------------------------------------------- re.compile(r"\[\[(.*?)\]\]")

OPEN == <<"[", "[">>
CLOSE == <<"]", "]">>

\* (.*) in place of (.*?): the group runs to the last "]]" of the line
GreedyEnd(line, e) ==
    LET ends == {j \in e..(Len(line) + 1) :
                    /\ OccursAt(line, CLOSE, j)
                    /\ \A k \in e..(j - 1) : line[k] # "\n"}
    IN  IF ends = {} THEN 0 ELSE CHOOSE j \in ends : \A k \in ends : k <= j

\* (.*?)\]\] with the group starting at e: the group grows one character
\* (any but a line break) at a time until "]]" follows; 0 when it never does.
\* The result is the position of the closing "]]".
RECURSIVE LazyEnd(_, _)
LazyEnd(line, e) ==
    IF OccursAt(line, CLOSE, e) THEN e
    ELSE IF e <= Len(line) /\ line[e] # "\n" THEN LazyEnd(line, e + 1)
    ELSE 0

\* the pattern matched at start position s
MatchAt(line, s) ==
    IF OccursAt(line, OPEN, s)
    THEN LET e == LazyEnd(line, s + 2)
         IN  IF e = 0 THEN [found |-> FALSE, group1 |-> <<>>]
             ELSE [found |-> TRUE, group1 |-> SubSeq(line, s + 2, e - 1)]
    ELSE [found |-> FALSE, group1 |-> <<>>]

\* pattern.search(line): the match at the leftmost start position that has one
RECURSIVE SearchFrom(_, _)
SearchFrom(line, s) ==
    IF s > Len(line) THEN [found |-> FALSE, group1 |-> <<>>]
    ELSE LET m == MatchAt(line, s)
         IN  IF m.found THEN m ELSE SearchFrom(line, s + 1)

pattern_search(line) == SearchFrom(line, 1)

\* ------------------------------------------------------ parse_wiki_body

RECURSIVE ParseLines(_, _, _, _)
ParseLines(lines, keyword, i, results) ==
    IF i > Len(lines) THEN results
    ELSE LET line == lines[i]
             match == pattern_search(line)
         IN  IF In(lower(keyword), lower(line)) /\ match.found
                /\ NoneOf(match.group1, results)
             THEN ParseLines(lines, keyword, i + 1, Append(results, match.group1))
             ELSE ParseLines(lines, keyword, i + 1, results)

parse_wiki_body(body_text, keyword) ==
    ParseLines(splitlines(body_text), keyword, 1, <<>>)

\* ------------------------------------------------- requests and responses

None == "None"     \* a handle that is unset
Conn == "conn"     \* a handle that is set

\* a query parameter q: missing, or given with text s
NoQ == [given |-> FALSE, s |-> <<>>]
Q(s) == [given |-> TRUE, s |-> s]

\* Python's `not q` for q of type Optional[str]
Falsy(q) == ~q.given \/ q.s = <<>>

\* a field of _source or of a hit: absent, null, a string or a list of strings
Absent == [kind |-> "absent", str |-> <<>>, list |-> <<>>]
Null == [kind |-> "null", str |-> <<>>, list |-> <<>>]
Str(s) == [kind |-> "str", str |-> s, list |-> <<>>]
List(l) == [kind |-> "list", str |-> <<>>, list |-> l]

\* one element of response['hits']['hits']
Hit(id, score, has_source, title, body, highlight) ==
    [_id |-> id, _score |-> score, has_source |-> has_source,
     title |-> title, body |-> body, highlight |-> highlight]

\* what the search engine does when it is called: it answers (kind "ok", with
\* or without hits.hits in the answer) or the call raises (any other kind)
EsOk(hits) == [kind |-> "ok", has_hits |-> TRUE, hits |-> hits]
EsNoHits == [kind |-> "ok", has_hits |-> FALSE, hits |-> <<>>]
EsFail(kind) == [kind |-> kind, has_hits |-> FALSE, hits |-> <<>>]

\* an HTTP response: status, message, the underlying failure text carried in
\* the message (if any) and the result list
Response(status, msg, cause, results) ==
    [status |-> status, msg |-> msg, cause |-> cause, results |-> results]

\* the outcome of the checks a handler makes before it calls the search
\* engine: the request is answered, or the handler goes on
Reply(resp) == [done |-> TRUE, resp |-> resp]
Proceed == [done |-> FALSE, resp |-> Response(0, "", "", <<>>)]

\* the outcome of one step that may raise
Ok(acc) == [raised |-> FALSE, exc |-> "", acc |-> acc]
Raise(exc) == [raised |-> TRUE, exc |-> exc, acc |-> <<>>]

\* str(e) of the exception the failed call raises
ExcText(es) ==
    CASE es.kind = "network" -> "Connection error"
      [] es.kind = "status" -> "ApiError(500)"
      [] es.kind = "malformed" -> "Malformed response"
      [] OTHER -> ""

\* Query(None, min_length=1) / Query(..., min_length=1): the framework rejects
\* the request before the handler runs
QueryRejected(required, q) ==
    \/ required /\ ~q.given
    \/ q.given /\ Len(q.s) < 1

\* ------------------------------------------------------------ search_wiki

search_wiki_pre(handle, q) ==
    IF QueryRejected(FALSE, q)
    THEN Reply(Response(422, "validation error", "", <<>>))
    ELSE IF handle = None
    THEN Reply(Response(503, "Elasticsearch service is unavailable.", "", <<>>))
    ELSE IF Falsy(q)
    THEN Reply(Response(400, "Query parameter 'q' is required.", "", <<>>))
    ELSE Proceed

\* all_matched_pages.extend(pages) in place of the loop with its test
MergePagesExtend(all_matched_pages, pages, i) ==
    all_matched_pages \o SubSeq(pages, i, Len(pages))

\* all_matched_pages after merging pages: first occurrence wins
RECURSIVE MergePages(_, _, _)
MergePages(all_matched_pages, pages, i) ==
    IF i > Len(pages) THEN all_matched_pages
    ELSE IF NoneOf(pages[i], all_matched_pages)
         THEN MergePages(Append(all_matched_pages, pages[i]), pages, i + 1)
         ELSE MergePages(all_matched_pages, pages, i + 1)

\* hit['_source']['body'] read without the test `'body' in hit['_source']`
search_wiki_hit_untested(all_matched_pages, hit, q) ==
    IF ~hit.has_source THEN Raise("'_source'")
    ELSE IF hit.body.kind = "absent" THEN Raise("'body'")
    ELSE IF hit.body.kind = "null"
    THEN Raise("'NoneType' object has no attribute 'splitlines'")
    ELSE LET body_content == IF hit.body.kind = "list"
                             THEN join(<<"\n">>, hit.body.list)
                             ELSE hit.body.str
         IN  Ok(MergePages(all_matched_pages, parse_wiki_body(body_content, q.s), 1))

\* one iteration of `for hit in response['hits']['hits']`
search_wiki_hit(all_matched_pages, hit, q) ==
    IF ~hit.has_source THEN Raise("'_source'")
    ELSE IF hit.body.kind = "absent" THEN Ok(all_matched_pages)
    ELSE IF hit.body.kind = "null"
    THEN Raise("'NoneType' object has no attribute 'splitlines'")
    ELSE LET body_content == IF hit.body.kind = "list"
                             THEN join(<<"\n">>, hit.body.list)
                             ELSE hit.body.str
             pages == parse_wiki_body(body_content, q.s)
         IN  Ok(MergePages(all_matched_pages, pages, 1))

search_wiki_return(q, all_matched_pages) ==
    Response(200, "", "", all_matched_pages)

\* ------------------------------------------------------- search_file_list

search_file_list_pre(handle, q) ==
    IF QueryRejected(TRUE, q)
    THEN Reply(Response(422, "validation error", "", <<>>))
    ELSE IF handle = None
    THEN Reply(Response(503, "Elasticsearch service is unavailable.", "", <<>>))
    ELSE IF Falsy(q)
    THEN Reply(Response(400, "Query parameter 'q' is required.", "", <<>>))
    ELSE Proceed

\* q.split() on the model's alphabet (the only whitespace is the space)
RECURSIVE SplitWords(_, _, _)
SplitWords(s, i, cur) ==
    IF i > Len(s)
    THEN IF cur = <<>> THEN <<>> ELSE <<cur>>
    ELSE IF s[i] = " "
         THEN (IF cur = <<>> THEN <<>> ELSE <<cur>>) \o SplitWords(s, i + 1, <<>>)
         ELSE SplitWords(s, i + 1, Append(cur, s[i]))

split(s) == SplitWords(s, 1, <<>>)

\* every start position of an occurrence counts, overlapping or not
CountOverlapping(s, t, i) ==
    Cardinality({j \in i..Len(s) : OccursAt(s, t, j)})

\* str.count(t) for non-empty t: occurrences are found left to right, and the
\* scan resumes after the end of each occurrence found
RECURSIVE CountFrom(_, _, _)
CountFrom(s, t, i) ==
    IF i + Len(t) - 1 > Len(s) THEN 0
    ELSE IF OccursAt(s, t, i) THEN 1 + CountFrom(s, t, i + Len(t))
    ELSE CountFrom(s, t, i + 1)

count(s, t) == CountFrom(s, t, 1)

RECURSIVE SumCounts(_, _, _)
SumCounts(body_text, words, i) ==
    IF i > Len(words) THEN 0
    ELSE count(lower(body_text), lower(words[i])) + SumCounts(body_text, words, i + 1)

\* body_text of a hit whose body is absent (default ''), a string or a list
BodyText(body) ==
    IF body.kind = "list" THEN join(<<"\n">>, body.list) ELSE body.str

\* one iteration of the loop: the entry appended to results
search_file_list_hit(results, hit, q) ==
    IF ~hit.has_source THEN Raise("'_source'")
    ELSE IF hit.body.kind = "null" /\ split(q.s) # <<>>
    THEN Raise("'NoneType' object has no attribute 'lower'")
    ELSE LET cnt == IF split(q.s) = <<>> THEN 0
                    ELSE SumCounts(BodyText(hit.body), split(q.s), 1)
             title == IF hit.title.kind = "str" /\ hit.title.str # <<>>
                      THEN hit.title.str ELSE hit._id
         IN  Ok(Append(results, [id |-> hit._id, title |-> title,
                                 count |-> cnt, score |-> hit._score]))

\* the sort key (x["score"], x["count"]), compared as Python compares tuples
KeyLess(x, y) ==
    \/ x.score < y.score
    \/ x.score = y.score /\ x.count < y.count

Reverse(l) == [i \in 1..Len(l) |-> l[Len(l) + 1 - i]]

\* x inserted after every element whose key is not greater: stable
RECURSIVE Insert(_, _, _)
Insert(sortedl, x, i) ==
    IF i > Len(sortedl) THEN Append(sortedl, x)
    ELSE IF KeyLess(x, sortedl[i])
         THEN SubSeq(sortedl, 1, i - 1) \o <<x>> \o SubSeq(sortedl, i, Len(sortedl))
         ELSE Insert(sortedl, x, i + 1)

RECURSIVE SortAscFrom(_, _, _)
SortAscFrom(l, i, acc) ==
    IF i > Len(l) THEN acc ELSE SortAscFrom(l, i + 1, Insert(acc, l[i], 1))

\* a stable ascending sort by the key
SortAsc(l) == SortAscFrom(l, 1, <<>>)

\* sorted(...)[::-1] in place of sorted(..., reverse=True)
SortedThenReversed(l) == Reverse(SortAsc(l))

\* sorted(results, key=..., reverse=True): the list is reversed, sorted
\* ascending by a stable sort, and reversed again
sorted_reverse(l) == Reverse(SortAsc(Reverse(l)))

search_file_list_return(q, results) ==
    Response(200, "", "", sorted_reverse(results))

\* ------------------------------------------------ search (crawler/search.py)

search_pre(handle, q) ==
    IF handle = None
    THEN Reply(Response(503, "Elasticsearch client is not available.", "", <<>>))
    ELSE IF Falsy(q)
    THEN Reply(Response(400, "Query parameter 'q' is required.", "", <<>>))
    ELSE Proceed

SEPARATOR == <<" ", ".", ".", ".", " ">>

\* "...".join in place of " ... ".join
SnippetDots(highlight) ==
    IF highlight.kind = "list" /\ highlight.list # <<>>
    THEN join(<<".", ".", ".">>, highlight.list) ELSE <<>>

\* snippet = " ... ".join(highlight) if highlight else ""
Snippet(highlight) ==
    IF highlight.kind = "list" /\ highlight.list # <<>>
    THEN join(SEPARATOR, highlight.list) ELSE <<>>

search_hit(hits, hit, q) ==
    Ok(Append(hits, [id |-> hit._id,
                     title |-> IF hit.has_source THEN hit.title ELSE Absent,
                     snippet |-> Snippet(hit.highlight)]))

search_return(q, hits) == Response(200, "", "", hits)

\* ------------------------------------------------------- the three handlers

Endpoints == {"search_wiki", "search_file_list", "search"}

\* the handle an endpoint reads
IsApi(ep) == ep \in {"search_wiki", "search_file_list"}

Pre(ep, handle, q) ==
    CASE ep = "search_wiki" -> search_wiki_pre(handle, q)
      [] ep = "search_file_list" -> search_file_list_pre(handle, q)
      [] ep = "search" -> search_pre(handle, q)

\* the call of the search engine and the access to the hits of its answer:
\* es_client.search(...) and response['hits']['hits'] (api/main.py);
\* client.search(...).read(), json.loads and the "hits" tests (crawler/search.py)
SearchCall(ep, es) ==
    IF es.kind # "ok" THEN Raise(ExcText(es))
    ELSE IF es.has_hits THEN Ok(es.hits)
    ELSE IF IsApi(ep) THEN Raise("'hits'")
    ELSE Ok(<<>>)

HitStep(ep, acc, hit, q) ==
    CASE ep = "search_wiki" -> search_wiki_hit(acc, hit, q)
      [] ep = "search_file_list" -> search_file_list_hit(acc, hit, q)
      [] ep = "search" -> search_hit(acc, hit, q)

Return(ep, q, acc) ==
    CASE ep = "search_wiki" -> search_wiki_return(q, acc)
      [] ep = "search_file_list" -> search_file_list_return(q, acc)
      [] ep = "search" -> search_return(q, acc)

\* the `except Exception as e` clause of the handler
Except500(ep, exc) ==
    IF IsApi(ep)
    THEN Response(500, "An error occurred during the search: ", exc, <<>>)
    ELSE Response(500, "An internal error occurred.", "", <<>>)

RECURSIVE RunHits(_, _, _, _, _)
RunHits(ep, hits, q, i, acc) ==
    IF i > Len(hits) THEN Ok(acc)
    ELSE LET step == HitStep(ep, acc, hits[i], q)
         IN  IF step.raised THEN step ELSE RunHits(ep, hits, q, i + 1, step.acc)

\* a handler run from the request to the response, given the handle and what
\* the search engine does if called
Handle(ep, handle, q, es) ==
    LET pre == Pre(ep, handle, q)
        called == SearchCall(ep, es)
        looped == RunHits(ep, called.acc, q, 1, <<>>)
    IN  IF pre.done THEN pre.resp
        ELSE IF called.raised THEN Except500(ep, called.exc)
        ELSE IF looped.raised THEN Except500(ep, looped.exc)
        ELSE Return(ep, q, looped.acc)

search_wiki(handle, q, es) == Handle("search_wiki", handle, q, es)
search_file_list(handle, q, es) == Handle("search_file_list", handle, q, es)
search(handle, q, es) == Handle("search", handle, q, es)

\* ------------------------------------------------------------ input sets

\* every text made of at most n pieces
RECURSIVE Texts(_, _)
Texts(pieces, n) ==
    IF n = 0 THEN {<<>>}
    ELSE LET shorter == Texts(pieces, n - 1)
         IN  shorter \cup {t \o c : t \in shorter, c \in pieces}

\* every sequence of at most n elements of S
RECURSIVE SeqsUpTo(_, _)
SeqsUpTo(S, n) ==
    IF n = 0 THEN {<<>>}
    ELSE LET shorter == SeqsUpTo(S, n - 1)
         IN  shorter \cup {Append(t, x) : t \in shorter, x \in S}

\* the variables of the running services, while a function is applied alone
Isolated ==
    /\ es_client = None
    /\ client = None
    /\ phase = "isolated"
    /\ connects = 0
    /\ req = <<>>

\* ------------------------------------- parse_wiki_body applied to any body

MaxPieces == 6

BodyPieces == {OPEN, CLOSE, <<"]">>, <<"a">>, <<"B">>, <<"\n">>}

Keywords == {<<>>, <<"a">>, <<"A">>, <<"b">>, <<"a", "B">>}

InitParse ==
    /\ Isolated
    /\ arg \in [body : Texts(BodyPieces, MaxPieces), keyword : Keywords]
    /\ ret = <<>>
    /\ op = "none"

ApplyParse ==
    /\ op = "none"
    /\ op' = "parse_wiki_body"
    /\ ret' = parse_wiki_body(arg.body, arg.keyword)
    /\ UNCHANGED <<es_client, client, phase, connects, req, arg>>

SpecParse == InitParse /\ [][ApplyParse]_vars

\* the lines of s as pairs <<first, last>> of positions: maximal runs without
\* a line break, the empty run after a final line break left out
LineSpans(s) ==
    {sp \in (1..Len(s)) \X (0..Len(s)) :
        /\ sp[1] <= sp[2] + 1
        /\ sp[1] = 1 \/ s[sp[1] - 1] = "\n"
        /\ sp[2] = Len(s) \/ s[sp[2] + 1] = "\n"
        /\ \A k \in sp[1]..sp[2] : s[k] # "\n"}

ContainsCI(line, K) ==
    \E i \in 1..(Len(line) + 1) :
        /\ i + Len(K) - 1 <= Len(line)
        /\ \A k \in 1..Len(K) : LowerChar(line[i + k - 1]) = LowerChar(K[k])

Least(S) == CHOOSE x \in S : \A y \in S : x <= y

OpensOf(line) == {i \in 1..Len(line) : OccursAt(line, OPEN, i)}
ClosesAfter(line, i) == {j \in (i + 2)..Len(line) : OccursAt(line, CLOSE, j)}

\* the line has a [[...]] token: a "[[" with a "]]" after it
HasToken(line) == \E i \in OpensOf(line) : ClosesAfter(line, i) # {}

\* the content of the first token: from the first "[[" to the next "]]"
FirstTokenContent(line) ==
    LET i == Least(OpensOf(line))
    IN  SubSeq(line, i + 2, Least(ClosesAfter(line, i)) - 1)

\* the contents of all the tokens of the line
TokenContents(line) ==
    {SubSeq(line, i + 2, Least(ClosesAfter(line, i)) - 1) :
        i \in {o \in OpensOf(line) : ClosesAfter(line, o) # {}}}

\* C2: every title parse_wiki_body returns is the content of the first
\* [[...]] token of a line of the body that contains the keyword, compared
\* without regard to case; nothing else contributes a title.
C2_TitlesAreFirstTokensOfMatchingLines ==
    op = "parse_wiki_body" =>
        \A n \in 1..Len(ret) :
            \E sp \in LineSpans(arg.body) :
                LET line == SubSeq(arg.body, sp[1], sp[2])
                IN  /\ ContainsCI(line, arg.keyword)
                    /\ HasToken(line)
                    /\ ret[n] = FirstTokenContent(line)

\* a matching line that holds two tokens of different content, of which the
\* first is the one title returned
C2_Witness ==
    /\ op = "parse_wiki_body"
    /\ Len(ret) = 1
    /\ \E sp \in LineSpans(arg.body) :
          LET line == SubSeq(arg.body, sp[1], sp[2])
          IN  /\ ContainsCI(line, arg.keyword)
              /\ Cardinality(TokenContents(line)) >= 2
              /\ ret[1] = FirstTokenContent(line)

\* ------------------------- search_file_list applied to hits of any ranking

MaxRankHits == 3
MaxScore == 1

\* hits that differ in score and in the number of occurrences of "a"
RankShapes ==
    {[score |-> sc, body |-> b] :
        sc \in 0..MaxScore, b \in {<<>>, <<"a">>, <<"a", "a">>}}

\* the hits of a response, the i-th with _id i
NumberedHits(shapes) ==
    [i \in 1..Len(shapes) |->
        Hit(i, shapes[i].score, TRUE, Absent, Str(shapes[i].body), Absent)]

InitRank ==
    /\ Isolated
    /\ arg \in {[q |-> Q(<<"a">>), es |-> EsOk(NumberedHits(sh))] :
                  sh \in SeqsUpTo(RankShapes, MaxRankHits)}
    /\ ret = <<>>
    /\ op = "none"

ApplySearchFileList ==
    /\ op = "none"
    /\ op' = "search_file_list"
    /\ ret' = search_file_list(Conn, arg.q, arg.es)
    /\ UNCHANGED <<es_client, client, phase, connects, req, arg>>

SpecRank == InitRank /\ [][ApplySearchFileList]_vars

MaxBodyLen == 4
MaxLines == 2
MaxQueryLen == 3

CountBodies ==
    {Str(t) : t \in Texts({<<"a">>, <<"A">>, <<"b">>}, MaxBodyLen)}
    \cup {List(l) : l \in SeqsUpTo(Texts({<<"a">>, <<"b">>}, 2), MaxLines)}

CountQueries == Texts({<<"a">>, <<"A">>, <<" ">>}, MaxQueryLen) \ {<<>>}

InitCount ==
    /\ Isolated
    /\ arg \in {[q |-> Q(k), es |-> EsOk(<<Hit(1, 1, TRUE, Absent, b, Absent)>>)] :
                  k \in CountQueries, b \in CountBodies}
    /\ ret = <<>>
    /\ op = "none"

SpecCount == InitCount /\ [][ApplySearchFileList]_vars

\* the terms of a query as pairs <<first, last>>: maximal runs without a space
TermSpans(s) ==
    {sp \in (1..Len(s)) \X (1..Len(s)) :
        /\ sp[1] <= sp[2]
        /\ sp[1] = 1 \/ s[sp[1] - 1] = " "
        /\ sp[2] = Len(s) \/ s[sp[2] + 1] = " "
        /\ \A k \in sp[1]..sp[2] : s[k] # " "}

\* the positions of text where term occurs, compared without regard to case
Occurrences(text, term) ==
    {i \in 1..Len(text) :
        /\ i + Len(term) - 1 <= Len(text)
        /\ \A k \in 1..Len(term) : LowerChar(text[i + k - 1]) = LowerChar(term[k])}

\* the largest number of occurrences no two of which overlap
MaxDisjoint(text, term) ==
    LET disjoint == {P \in SUBSET Occurrences(text, term) :
                        \A x, y \in P : x < y => y - x >= Len(term)}
        sizes == {Cardinality(P) : P \in disjoint}
    IN  CHOOSE n \in sizes : \A m \in sizes : m <= n

\* the lines of a body: a string is one text, a list one text per element
TextsOf(body) ==
    IF body.kind = "list" THEN body.list
    ELSE IF body.kind = "str" THEN <<body.str>>
    ELSE <<>>

RECURSIVE SumAllOccurrences(_, _, _)
SumAllOccurrences(texts, q, spans) ==
    IF spans = {} THEN 0
    ELSE LET sp == CHOOSE x \in spans : TRUE
             term == SubSeq(q, sp[1], sp[2])
             here == [n \in 0..Len(texts) |->
                        IF n = 0 THEN 0
                        ELSE Cardinality(Occurrences(texts[n], term))]
             total[n \in 0..Len(texts)] ==
                 IF n = 0 THEN 0 ELSE total[n - 1] + here[n]
         IN  total[Len(texts)] + SumAllOccurrences(texts, q, spans \ {sp})

RECURSIVE SumDisjointOccurrences(_, _, _)
SumDisjointOccurrences(texts, q, spans) ==
    IF spans = {} THEN 0
    ELSE LET sp == CHOOSE x \in spans : TRUE
             term == SubSeq(q, sp[1], sp[2])
             total[n \in 0..Len(texts)] ==
                 IF n = 0 THEN 0 ELSE total[n - 1] + MaxDisjoint(texts[n], term)
         IN  total[Len(texts)] + SumDisjointOccurrences(texts, q, spans \ {sp})

\* C8 as stated: the count of an entry is the sum over the terms of the
\* query of the number of occurrences of the term in the body, overlapping
\* occurrences each counted.
C8_CountsEveryOccurrence ==
    op = "search_file_list" =>
        /\ ret.status = 200
        /\ ret.results[1].count =
              SumAllOccurrences(TextsOf(arg.es.hits[1].body), arg.q.s,
                                TermSpans(arg.q.s))

\* C8 amended: the count of an entry is the sum over the terms of the query
\* (a repeated term counted once per repetition) of the largest number of
\* occurrences of the term in the body, compared without regard to case, no
\* two of which overlap; the lines of a list body are counted one by one.
C8_CountsDisjointOccurrences ==
    op = "search_file_list" =>
        /\ ret.status = 200
        /\ ret.results[1].count =
              SumDisjointOccurrences(TextsOf(arg.es.hits[1].body), arg.q.s,
                                     TermSpans(arg.q.s))

\* a body where the term overlaps itself and differs from it in case
C8_Witness ==
    /\ op = "search_file_list"
    /\ arg.q.s = <<"A", "A">>
    /\ arg.es.hits[1].body = Str(<<"a", "a", "a">>)
    /\ ret.results[1].count = 1

\* ------------------ search_wiki and search_file_list applied to any hit list

MaxWikiHits == 3

\* bodies whose matching lines name the pages x, y and z in different orders,
\* a body given as a list of lines, and the malformed hits: no body field, a
\* null body, no _source
WikiShapes ==
    {[has_source |-> TRUE, body |-> b] :
        b \in {Str(<<"[", "[", "x", "]", "]", "a", "\n", "[", "[", "y", "]", "]", "a">>),
               Str(<<"[", "[", "y", "]", "]", "A", "\n", "[", "[", "z", "]", "]",
                     "\n", "[", "[", "x", "]", "]", "a", "[", "[", "z", "]", "]">>),
               List(<< <<"[", "[", "z", "]", "]", "a">>, <<"a", "[", "[", "x", "]", "]">> >>),
               Absent, Null}}
    \cup {[has_source |-> FALSE, body |-> Absent]}

WikiHits(shapes) ==
    [i \in 1..Len(shapes) |->
        Hit(i, 1, shapes[i].has_source, Absent, shapes[i].body, Absent)]

InitTitles ==
    /\ Isolated
    /\ arg \in {[q |-> Q(<<"a">>), es |-> EsOk(WikiHits(sh))] :
                  sh \in SeqsUpTo(WikiShapes, MaxWikiHits)}
    /\ ret = <<>>
    /\ op = "none"

ApplySearchWiki ==
    /\ op = "none"
    /\ op' = "search_wiki"
    /\ ret' = search_wiki(Conn, arg.q, arg.es)
    /\ UNCHANGED <<es_client, client, phase, connects, req, arg>>

NextTitles == ApplySearchWiki \/ ApplySearchFileList

SpecTitles == InitTitles /\ [][NextTitles]_vars

\* the text of a body that has one
TextOf(body) ==
    IF body.kind = "str" THEN body.str
    ELSE IF body.kind = "list" THEN join(<<"\n">>, body.list)
    ELSE <<>>

\* every place where a title is found: <<hit, first position of the line>>
\* of each line that contains the keyword and has a token
Finds(hits, K) ==
    UNION {{<<h, sp[1]>> :
              sp \in {x \in LineSpans(TextOf(hits[h].body)) :
                        LET line == SubSeq(TextOf(hits[h].body), x[1], x[2])
                        IN  ContainsCI(line, K) /\ HasToken(line)}} :
           h \in 1..Len(hits)}

\* the title found at a place
TitleAt(hits, f) ==
    LET text == TextOf(hits[f[1]].body)
        sp == CHOOSE x \in LineSpans(text) : x[1] = f[2]
    IN  FirstTokenContent(SubSeq(text, sp[1], sp[2]))

Before(f, g) == f[1] < g[1] \/ (f[1] = g[1] /\ f[2] < g[2])

\* the first place where title t is found
FirstFind(hits, K, t) ==
    CHOOSE f \in Finds(hits, K) :
        /\ TitleAt(hits, f) = t
        /\ \A g \in Finds(hits, K) : TitleAt(hits, g) = t => ~Before(g, f)

\* C1: the results of search_wiki hold no title twice, hold exactly the
\* titles found, and order them by the place where each was found first
\* (hits in response order, lines top to bottom).
C1_NoDuplicatesFirstDiscoveryOrder ==
    (op = "search_wiki" /\ ret.status = 200) =>
        LET r == ret.results
            hits == arg.es.hits
            K == arg.q.s
        IN  /\ \A i, j \in 1..Len(r) : i # j => r[i] # r[j]
            /\ {r[i] : i \in 1..Len(r)} =
                  {TitleAt(hits, f) : f \in Finds(hits, K)}
            /\ \A i, j \in 1..Len(r) :
                  i < j => Before(FirstFind(hits, K, r[i]), FirstFind(hits, K, r[j]))

\* three titles, one of them found again in a later hit
C1_Witness ==
    /\ op = "search_wiki"
    /\ ret.status = 200
    /\ Len(ret.results) = 3
    /\ \E f, g \in Finds(arg.es.hits, arg.q.s) :
          /\ f[1] < g[1]
          /\ TitleAt(arg.es.hits, f) = TitleAt(arg.es.hits, g)
          /\ TitleAt(arg.es.hits, f) = ret.results[1]

\* the hits that have a body field, in order
RECURSIVE HitsWithBody(_, _)
HitsWithBody(hits, i) ==
    IF i > Len(hits) THEN <<>>
    ELSE IF hits[i].body.kind # "absent"
         THEN <<hits[i]>> \o HitsWithBody(hits, i + 1)
         ELSE HitsWithBody(hits, i + 1)

\* the entries of the hits that have a body field, in order
RECURSIVE EntriesWithBody(_, _, _)
EntriesWithBody(hits, r, i) ==
    IF i > Len(r) THEN <<>>
    ELSE IF hits[r[i].id].body.kind # "absent"
         THEN <<r[i]>> \o EntriesWithBody(hits, r, i + 1)
         ELSE EntriesWithBody(hits, r, i + 1)

\* C7 as stated: in search_wiki and in search_file_list a hit without a body
\* field contributes nothing, the request succeeds with the results of the
\* other hits, and no malformed hit fails the request.
C7_HitWithoutBodySkipped ==
    op \in {"search_wiki", "search_file_list"} =>
        /\ ret.status = 200
        /\ ret.results =
              Handle(op, Conn, arg.q, EsOk(HitsWithBody(arg.es.hits, 1))).results

\* every hit has a _source and no body is null
WellFormedBut(hits) ==
    \A i \in 1..Len(hits) : hits[i].has_source /\ hits[i].body.kind # "null"

\* C7 amended: when every hit has a _source and no body is null, the request
\* succeeds whatever hits lack a body field; search_wiki skips such a hit
\* (the results are those of the other hits); search_file_list keeps it as an
\* entry with count 0, and its other entries are the results of the other
\* hits. A hit without _source or with a null body fails the request with an
\* internal error (the keyword here has a term).
C7_HitWithoutBodyDoesNotFail ==
    op \in {"search_wiki", "search_file_list"} =>
        LET hits == arg.es.hits
            others == Handle(op, Conn, arg.q, EsOk(HitsWithBody(hits, 1))).results
        IN  IF WellFormedBut(hits)
            THEN /\ ret.status = 200
                 /\ op = "search_wiki" => ret.results = others
                 /\ op = "search_file_list" =>
                       /\ Len(ret.results) = Len(hits)
                       /\ \A i \in 1..Len(hits) :
                             hits[ret.results[i].id].body.kind = "absent"
                                 => ret.results[i].count = 0
                       /\ EntriesWithBody(hits, ret.results, 1) = others
            ELSE /\ ret.status = 500
                 /\ ret.results = <<>>

\* a response with a hit without body between two hits with one
C7_Witness ==
    /\ op \in {"search_wiki", "search_file_list"}
    /\ Len(arg.es.hits) = 3
    /\ arg.es.hits[1].body.kind = "str"
    /\ arg.es.hits[2].has_source
    /\ arg.es.hits[2].body.kind = "absent"
    /\ arg.es.hits[3].body.kind = "list"
    /\ ret.status = 200
    /\ Len(ret.results) = 3

\* -------------------- search (crawler/search.py) applied to any highlights

MaxSnippetHits == 2
MaxFragments == 2

NoBody == [kind |-> "nobody", str |-> <<>>, list |-> <<>>]

Fragments == {<<>>, <<"a">>, <<"b">>}

Highlights ==
    {Absent, NoBody} \cup {List(l) : l \in SeqsUpTo(Fragments, MaxFragments)}

InitSnippet ==
    /\ Isolated
    /\ arg \in {[q |-> Q(<<"a">>),
                 es |-> EsOk([i \in 1..Len(hl) |->
                                 Hit(i, 1, TRUE, Absent, Absent, hl[i])])] :
                  hl \in SeqsUpTo(Highlights, MaxSnippetHits)}
    /\ ret = <<>>
    /\ op = "none"

ApplySearch ==
    /\ op = "none"
    /\ op' = "search"
    /\ ret' = search(Conn, arg.q, arg.es)
    /\ UNCHANGED <<es_client, client, phase, connects, req, arg>>

SpecSnippet == InitSnippet /\ [][ApplySearch]_vars

\* the fragments joined from the left: all but the last, " ... ", the last
RECURSIVE JoinedWithDots(_)
JoinedWithDots(frags) ==
    IF frags = <<>> THEN <<>>
    ELSE IF Len(frags) = 1 THEN frags[1]
    ELSE JoinedWithDots(SubSeq(frags, 1, Len(frags) - 1))
            \o <<" ", ".", ".", ".", " ">> \o frags[Len(frags)]

\* C10: the snippet of every hit is its body highlight fragments joined in
\* order with " ... ", and the empty string when the hit has no
\* highlight.body or no fragment: snippet([]) = "", snippet(["a","b"]) =
\* "a ... b".
C10_SnippetJoinsFragments ==
    op = "search" =>
        /\ ret.status = 200
        /\ Len(ret.results) = Len(arg.es.hits)
        /\ \A i \in 1..Len(arg.es.hits) :
              LET hl == arg.es.hits[i].highlight
                  snippet == ret.results[i].snippet
              IN  /\ hl.kind # "list" => snippet = <<>>
                  /\ hl.kind = "list" => snippet = JoinedWithDots(hl.list)
                  /\ hl = List(<<>>) => snippet = <<>>
                  /\ hl = List(<< <<"a">>, <<"b">> >>)
                        => snippet = <<"a", " ", ".", ".", ".", " ", "b">>

\* a hit with the fragments "a" and "b" after a hit without highlight
C10_Witness ==
    /\ op = "search"
    /\ Len(arg.es.hits) = 2
    /\ arg.es.hits[1].highlight = Absent
    /\ arg.es.hits[2].highlight = List(<< <<"a">>, <<"b">> >>)
    /\ ret.results[1].snippet = <<>>
    /\ ret.results[2].snippet = <<"a", " ", ".", ".", ".", " ", "b">>

\* ------------------------------------------------- the running services

NumSlots == 2

Slots == 1..NumSlots

Apps == {"api", "crawler"}

AppOf(ep) == IF IsApi(ep) THEN "api" ELSE "crawler"

\* the global an endpoint reads: es_client (api/main.py), client (search.py)
HandleOf(ep) == IF IsApi(ep) THEN es_client ELSE client

Started(app) == phase[app] \in {"up", "down"}

\* a request slot: where the handler stands (pc), the request (ep, q), what
\* the search engine did (es), the loop over the hits (hits, i), the local
\* result list (acc), the calls of the search engine made, the response
IdleReq ==
    [pc |-> "idle", ep |-> "search", q |-> NoQ, es |-> EsFail("none"),
     hits |-> <<>>, i |-> 0, acc |-> <<>>, calls |-> 0,
     resp |-> Response(0, "", "", <<>>)]

Queries == {NoQ, Q(<<>>), Q(<<"a">>)}

HitX == Hit(1, 1, TRUE, Str(<<"t">>),
            Str(<<"[", "[", "x", "]", "]", "a">>), List(<< <<"a">> >>))
HitYX == Hit(2, 1, TRUE, Absent,
             Str(<<"[", "[", "y", "]", "]", "a", "\n", "[", "[", "x", "]", "]", "a">>),
             Absent)
HitNoSource == Hit(3, 1, FALSE, Absent, Absent, Absent)

EsOutcomes ==
    {EsFail("network"), EsFail("status"), EsFail("malformed"), EsNoHits,
     EsOk(<<HitX, HitYX>>), EsOk(<<HitYX, HitNoSource>>)}

Init ==
    /\ es_client = None
    /\ client = None
    /\ phase = [api |-> "init", crawler |-> "init"]
    /\ connects = [api |-> 0, crawler |-> 0]
    /\ req = [r \in Slots |-> IdleReq]
    /\ arg = <<>>
    /\ ret = <<>>
    /\ op = "none"

\* the handle is kept when the health check fails
HandleKeptAfterPing(outcome) ==
    IF outcome = "raised" THEN None ELSE Conn

\* es_client after the try/except of lifespan: set when Elasticsearch(...)
\* returned and ping() was true, None when either failed
HandleAfterStartup(outcome) ==
    IF outcome = "connected" THEN Conn ELSE None

\* lifespan, up to the yield
lifespan(outcome) ==
    /\ phase.api = "init"
    /\ es_client' = HandleAfterStartup(outcome)
    /\ phase' = [phase EXCEPT !.api = IF outcome = "connected" THEN "up" ELSE "down"]
    /\ connects' = [connects EXCEPT !.api = @ + 1]
    /\ UNCHANGED <<client, req, arg, ret, op>>

\* lifespan, after the yield: the connection is closed, the global is kept
lifespan_exit ==
    /\ Started("api")
    /\ \A r \in Slots : IsApi(req[r].ep) => req[r].pc \in {"idle", "done"}
    /\ phase' = [phase EXCEPT !.api = "stopped"]
    /\ UNCHANGED <<es_client, client, connects, req, arg, ret, op>>

\* crawler/search.py at import: ElsClient(...) and client.get_index()
client_init(outcome) ==
    /\ phase.crawler = "init"
    /\ client' = IF outcome = "connected" THEN Conn ELSE None
    /\ phase' = [phase EXCEPT !.crawler = IF outcome = "connected" THEN "up" ELSE "down"]
    /\ connects' = [connects EXCEPT !.crawler = @ + 1]
    /\ UNCHANGED <<es_client, req, arg, ret, op>>

\* an endpoint without the test of the keyword
EnterUnchecked(ep, q, handle) ==
    IF handle = None
    THEN [IdleReq EXCEPT !.pc = "done", !.ep = ep, !.q = q,
                         !.resp = Pre(ep, handle, Q(<<"a">>)).resp]
    ELSE [IdleReq EXCEPT !.pc = "calling", !.ep = ep, !.q = q]

\* a handler from its entry to the call of the search engine
Enter(ep, q, handle) ==
    LET pre == Pre(ep, handle, q)
    IN  IF pre.done
        THEN [IdleReq EXCEPT !.pc = "done", !.ep = ep, !.q = q, !.resp = pre.resp]
        ELSE [IdleReq EXCEPT !.pc = "calling", !.ep = ep, !.q = q]

Receive(r, ep, q) ==
    /\ req[r].pc = "idle"
    /\ Started(AppOf(ep))
    /\ req' = [req EXCEPT ![r] = Enter(ep, q, HandleOf(ep))]
    /\ UNCHANGED <<es_client, client, phase, connects, arg, ret, op>>

\* a failed call is made again
AfterCallRetry(rq, es) ==
    LET called == SearchCall(rq.ep, es)
    IN  IF called.raised
        THEN [rq EXCEPT !.es = es, !.calls = @ + 1]
        ELSE [rq EXCEPT !.pc = "looping", !.es = es, !.calls = @ + 1,
                        !.hits = called.acc, !.i = 1, !.acc = <<>>]

\* the call of the search engine: the loop starts, or the except clause answers
AfterCall(rq, es) ==
    LET called == SearchCall(rq.ep, es)
    IN  IF called.raised
        THEN [rq EXCEPT !.pc = "done", !.es = es, !.calls = @ + 1,
                        !.resp = Except500(rq.ep, called.exc)]
        ELSE [rq EXCEPT !.pc = "looping", !.es = es, !.calls = @ + 1,
                        !.hits = called.acc, !.i = 1, !.acc = <<>>]

Call(r, es) ==
    /\ req[r].pc = "calling"
    /\ req' = [req EXCEPT ![r] = AfterCall(req[r], es)]
    /\ UNCHANGED <<es_client, client, phase, connects, arg, ret, op>>

\* one result list for all the requests of an endpoint
SharedList(r) ==
    LET same == {s \in Slots : /\ s # r
                               /\ req[s].ep = req[r].ep
                               /\ req[s].pc \in {"looping", "done"}}
    IN  IF same = {} THEN req[r].acc ELSE req[CHOOSE s \in same : TRUE].acc

\* the result list of a request: a local of the handler's call
LocalList(r) == req[r].acc

\* one iteration of the loop over the hits
Step(r) ==
    /\ req[r].pc = "looping"
    /\ req[r].i <= Len(req[r].hits)
    /\ LET rq == req[r]
           step == HitStep(rq.ep, LocalList(r), rq.hits[rq.i], rq.q)
       IN  req' = [req EXCEPT ![r] =
                     IF step.raised
                     THEN [rq EXCEPT !.pc = "done",
                                     !.resp = Except500(rq.ep, step.exc)]
                     ELSE [rq EXCEPT !.i = @ + 1, !.acc = step.acc]]
    /\ UNCHANGED <<es_client, client, phase, connects, arg, ret, op>>

\* the end of the loop: the response is returned
Finish(r) ==
    /\ req[r].pc = "looping"
    /\ req[r].i > Len(req[r].hits)
    /\ req' = [req EXCEPT ![r] =
                 [@ EXCEPT !.pc = "done",
                           !.resp = Return(req[r].ep, req[r].q, LocalList(r))]]
    /\ UNCHANGED <<es_client, client, phase, connects, arg, ret, op>>

\* the response is sent and the locals of the call are gone
Forget(r) ==
    /\ req[r].pc = "done"
    /\ req' = [req EXCEPT ![r] = IdleReq]
    /\ UNCHANGED <<es_client, client, phase, connects, arg, ret, op>>

Next ==
    \/ \E outcome \in {"connected", "ping_false", "raised"} : lifespan(outcome)
    \/ lifespan_exit
    \/ \E outcome \in {"connected", "raised"} : client_init(outcome)
    \/ \E r \in Slots, ep \in Endpoints, q \in Queries : Receive(r, ep, q)
    \/ \E r \in Slots, es \in EsOutcomes : Call(r, es)
    \/ \E r \in Slots : Step(r)
    \/ \E r \in Slots : Finish(r)
    \/ \E r \in Slots : Forget(r)

Spec == Init /\ [][Next]_vars

\* the requests being handled or answered
Active == {r \in Slots : req[r].pc # "idle"}
Answered == {r \in Slots : req[r].pc = "done"}

ClientError(status) == status \in {400, 422}

\* the framework's validation of q at the endpoint of a request
Rejected(rq) ==
    /\ IsApi(rq.ep)
    /\ QueryRejected(rq.ep = "search_file_list", rq.q)

\* C4 as stated: at every endpoint, whether the handle is set or not, a
\* request with an empty or missing keyword is answered with a client error
\* and the search engine is not called for it.
C4_EmptyKeywordIsClientError ==
    \A r \in Answered :
        Falsy(req[r].q) => ClientError(req[r].resp.status) /\ req[r].calls = 0

\* C4 amended: at every endpoint a request with an empty or missing keyword
\* is answered without any call of the search engine; the answer is a client
\* error when the handle is set, and when it is unset the answer is the
\* service-unavailable error, unless the framework's validation of q has
\* rejected the request before the handler ran (a client error).
C4_EmptyKeywordNeverSearches ==
    \A r \in Active :
        Falsy(req[r].q) =>
            /\ req[r].pc = "done"
            /\ req[r].calls = 0
            /\ HandleOf(req[r].ep) = Conn => ClientError(req[r].resp.status)
            /\ HandleOf(req[r].ep) = None =>
                  IF Rejected(req[r]) THEN req[r].resp.status = 422
                  ELSE req[r].resp.status = 503

\* an empty keyword answered 400 with the handle set, and a missing keyword
\* answered 503 with the handle unset
C4_Witness ==
    \E r, s \in Answered :
        /\ req[r].ep = "search" /\ req[r].q = Q(<<>>)
        /\ client = Conn /\ req[r].resp.status = 400
        /\ req[s].ep = "search_wiki" /\ req[s].q = NoQ
        /\ es_client = None /\ req[s].resp.status = 503

HandleOfApp(app) == IF app = "api" THEN es_client ELSE client

\* C5 as stated: after a failed startup the handle stays unset and every
\* request is answered with the service-unavailable error, without any
\* reconnection or call of the search engine.
C5_EveryRequestUnavailable ==
    \A app \in Apps :
        phase[app] = "down" =>
            /\ HandleOfApp(app) = None
            /\ connects[app] = 1
            /\ \A r \in Active :
                  AppOf(req[r].ep) = app =>
                      /\ req[r].pc = "done"
                      /\ req[r].calls = 0
                      /\ req[r].resp.status = 503

C5_Step ==
    \A app \in Apps :
        phase[app] = "down" =>
            /\ HandleOfApp(app) = None
            /\ connects[app] = 1
            /\ phase'[app] \in {"down", "stopped"}
            /\ HandleOfApp(app)' = None
            /\ connects'[app] = connects[app]
            /\ \A r \in Slots :
                  (req'[r].pc # "idle" /\ AppOf(req'[r].ep) = app) =>
                      /\ req'[r].pc = "done"
                      /\ req'[r].calls = 0
                      /\ IF Rejected(req'[r]) THEN req'[r].resp.status = 422
                         ELSE req'[r].resp.status = 503

\* C5 amended: after a failed startup (the connection raised or the health
\* check failed) the handle is unset and stays unset, no connection is
\* opened again, and every later request is answered without a call of the
\* search engine: with the service-unavailable error, unless the framework's
\* validation of q has rejected it before the handler ran (a client error).
C5_UnavailableForever == [][C5_Step]_vars

\* after a failed health check, a request with a keyword answered 503 on
\* both services
C5_Witness ==
    /\ phase.api = "down"
    /\ phase.crawler = "down"
    /\ \E r, s \in Answered :
          /\ req[r].ep = "search_file_list" /\ req[r].q = Q(<<"a">>)
          /\ req[r].resp.status = 503
          /\ req[s].ep = "search" /\ req[s].q = Q(<<"a">>)
          /\ req[s].resp.status = 503

\* the search call of a request has raised
CallFailed(rq) == rq.calls >= 1 /\ rq.es.kind # "ok"

C9_Step ==
    /\ Started("api") => es_client' = es_client
    /\ Started("crawler") => client' = client
    /\ \A r, s \in Slots : (r # s /\ req'[r] # req[r]) => req'[s] = req[s]
    /\ \A r \in Slots :
          req'[r].pc = "done" =>
              req'[r].resp =
                  Handle(req'[r].ep,
                         IF IsApi(req'[r].ep) THEN es_client' ELSE client',
                         req'[r].q, req'[r].es)

\* C9: after startup no step of a request changes a handle or another
\* request, and however the steps of the requests interleave, the response
\* of each request is the one the handler gives when run alone on the
\* request's keyword, the handle and the search engine's answer to its call.
C9_RequestsIndependent == [][C9_Step]_vars

\* two requests of one endpoint, both inside the loop over their hits, with
\* different hits and different result lists
C9_Witness ==
    /\ req[1].pc = "looping" /\ req[2].pc = "looping"
    /\ req[1].ep = "search_wiki" /\ req[2].ep = "search_wiki"
    /\ req[1].i = 2 /\ req[2].i = 2
    /\ req[1].hits # req[2].hits
    /\ req[1].acc # <<>> /\ req[2].acc # <<>>
    /\ req[1].acc # req[2].acc

====
